---- MODULE Spec2Model ----
(***************************************************************************)
(* A model of imapbox's mailboxresource.py: the MailboxClient session,     *)
(* the archival of fetched messages into <local_folder>/<year>/<name>,     *)
(* and the resolution of a connection descriptor by get_account.           *)
(*                                                                         *)
(* Strings the code looks into (Message-Id, Date, paths, folder names) are *)
(* sequences of one-character strings, so that re.sub, re.search, lstrip,  *)
(* os.path.join and '+' are computed character by character.               *)
(***************************************************************************)
EXTENDS Integers, Sequences, FiniteSets, TLC

(***************************************************************************)
(* Characters and character classes of the regular expressions             *)
(***************************************************************************)
Lower ==
    {"a", "b", "c", "d", "e", "f", "g", "h", "i", "j", "k", "l", "m",
     "n", "o", "p", "q", "r", "s", "t", "u", "v", "w", "x", "y", "z"}

Upper ==
    {"A", "B", "C", "D", "E", "F", "G", "H", "I", "J", "K", "L", "M",
     "N", "O", "P", "Q", "R", "S", "T", "U", "V", "W", "X", "Y", "Z"}

Digit ==
    {"0", "1", "2", "3", "4", "5", "6", "7", "8", "9"}

\* \w of the Date pattern
WordChar ==
    Lower \cup Upper \cup Digit \cup {"_"}

\* \s of the Date pattern
SpaceChar ==
    {" ", "\t"}

\* the class [a-zA-Z0-9_\-\.() ] that the folder name keeps
FolderNameChar ==
    Lower \cup Upper \cup Digit \cup {"_", "-", ".", "(", ")", " "}

\* a string of n zeros
Zeros(n) ==
    [i \in 1..n |-> "0"]

\* Python's None, for values that are strings otherwise
None ==
    [present |-> FALSE, val |-> <<>>]

Str(s) ==
    [present |-> TRUE, val |-> s]

\* truth value of an optional string: None and "" are false
Truthy(h) ==
    h.present /\ Len(h.val) > 0

(***************************************************************************)
(* getEmailFolder: folder name, year, path                                 *)
(***************************************************************************)
\* the longest Message-Id that is used as a folder name is one shorter
MaxFilenameLen ==
    255

\* re.sub(r"[^a-zA-Z0-9_\-\.() ]+", "", s)
Sanitize(s) ==
    SelectSeq(s, LAMBDA c : c \in FolderNameChar)

HexDigits ==
    <<"0", "1", "2", "3", "4", "5", "6", "7",
      "8", "9", "a", "b", "c", "d", "e", "f">>

\* length of a SHA-224 hex digest
DigestLen ==
    56

\* hashlib.sha224(data).hexdigest(): the payload is the index of the message
\* in Messages; distinct payloads get distinct digests
Sha224(payload) ==
    [i \in 1..DigestLen |->
        IF i = DigestLen THEN HexDigits[(payload % 16) + 1]
        ELSE IF i = DigestLen - 1 THEN HexDigits[((payload \div 16) % 16) + 1]
        ELSE "0"]

\* does \d{1,2}\s\w{3}\s(\d{4}) match s at position i with d leading digits
DateMatchAt(s, i, d) ==
    /\ i + d + 8 <= Len(s)
    /\ \A k \in i..(i + d - 1) : s[k] \in Digit
    /\ s[i + d] \in SpaceChar
    /\ \A k \in (i + d + 1)..(i + d + 3) : s[k] \in WordChar
    /\ s[i + d + 4] \in SpaceChar
    /\ \A k \in (i + d + 5)..(i + d + 8) : s[k] \in Digit

\* re.search: the leftmost match, two leading digits tried before one
DateMatches(s) ==
    {<<i, d>> \in (1..Len(s)) \X {1, 2} : DateMatchAt(s, i, d)}

FirstDateMatch(s) ==
    CHOOSE m \in DateMatches(s) :
        \A o \in DateMatches(s) :
            \/ m[1] < o[1]
            \/ (m[1] = o[1] /\ m[2] >= o[2])

NoneYear ==
    <<"N", "o", "n", "e">>

\* lines 125-129
YearOf(date) ==
    IF Truthy(date) /\ DateMatches(date.val) # {}
    THEN LET m == FirstDateMatch(date.val)
         IN  SubSeq(date.val, m[1] + m[2] + 5, m[1] + m[2] + 8)
    ELSE NoneYear

\* lines 120-123
\* faulty: the Message-Id is used whatever its length
FolderNameOfAs_NoLengthCheck(msg, payload) ==
    IF Truthy(msg.MessageId)
    THEN Sanitize(msg.MessageId.val)
    ELSE Sha224(payload)

\* faulty: the name of a message with a Message-Id depends on its payload
FolderNameOfAs_WithPayload(msg, payload) ==
    IF Truthy(msg.MessageId) /\ Len(msg.MessageId.val) < MaxFilenameLen
    THEN Sanitize(msg.MessageId.val) \o <<HexDigits[(payload % 16) + 1]>>
    ELSE Sha224(payload)

FolderNameOf(msg, payload) ==
    IF Truthy(msg.MessageId) /\ Len(msg.MessageId.val) < MaxFilenameLen
    THEN Sanitize(msg.MessageId.val)
    ELSE Sha224(payload)

\* os.path.join(a, b) of posixpath
PathJoin2(a, b) ==
    IF Len(b) > 0 /\ b[1] = "/" THEN b
    ELSE IF Len(a) = 0 \/ a[Len(a)] = "/" THEN a \o b
    ELSE a \o <<"/">> \o b

PathJoin(a, b, c) ==
    PathJoin2(PathJoin2(a, b), c)

\* line 131
getEmailFolder(local_folder_, msg, payload) ==
    PathJoin(local_folder_, YearOf(msg.Date), FolderNameOf(msg, payload))

\* line 158: '.' + str(self.getEmailFolder(msg, data[0][1]))
DirectoryOf(local_folder_, msg, payload) ==
    <<".">> \o getEmailFolder(local_folder_, msg, payload)

(***************************************************************************)
(* The file system: a path names the directory its components lead to      *)
(***************************************************************************)
\* the positions at which a component of path p starts
ComponentStarts(p) ==
    {i \in 1..Len(p) : p[i] # "/" /\ (i = 1 \/ p[i - 1] = "/")}

\* the positions at which a component of path p ends
ComponentEnds(p) ==
    {i \in 1..Len(p) : p[i] # "/" /\ (i = Len(p) \/ p[i + 1] = "/")}

\* the n-th position of a set of positions
NthOf(positions, n) ==
    CHOOSE i \in positions : Cardinality({j \in positions : j < i}) = n - 1

\* p.split("/") without the empty components
SplitPath(p) ==
    LET starts == ComponentStarts(p)
        ends == ComponentEnds(p)
    IN  [n \in 1..Cardinality(starts) |-> SubSeq(p, NthOf(starts, n), NthOf(ends, n))]

\* the components of a path; empty components and "." name nothing
Components(p) ==
    SelectSeq(SplitPath(p), LAMBDA c : c # <<".">>)

IsAbsolute(p) ==
    Len(p) > 0 /\ p[1] = "/"

\* the directory a path names: absolute or relative to the working directory
Location(p) ==
    [abs |-> IsAbsolute(p), comps |-> Components(p)]

\* the location and every directory above it that makedirs creates
WithParents(loc) ==
    {[abs |-> loc.abs, comps |-> SubSeq(loc.comps, 1, n)] : n \in 1..Len(loc.comps)}

(***************************************************************************)
(* Inputs: the messages a server can hold, mailboxes, options, servers     *)
(***************************************************************************)
\* the number of program runs (save_emails calls) a behaviour makes
MaxRuns ==
    2

\* the number of failures (directory creation, materialization) the
\* environment injects in a behaviour
MaxFaults ==
    2

Date1 ==
    Str(<<"W", "e", "d", ",", " ", "0", "1", " ", "J", "a", "n", " ", "2", "0", "2", "3", " ", "1", "0", ":", "0", "0", ":", "0", "0", " ", "+", "0", "0", "0", "0">>)

Date2 ==
    Str(<<"1", " ", "J", "a", "n", " ", "2", "0", "2", "3">>)

Date3 ==
    Str(<<"F", "r", "i", ",", " ", "1", "0", "2", " ", "F", "e", "b", " ", "2", "0", "2", "4">>)

DateMalformed ==
    Str(<<"2", "0", "2", "3", "-", "0", "1", "-", "0", "1", " ", "J", "a", "n">>)

\* a Message-Id of n characters: "<", n - 2 zeros, ">"
LongId(n) ==
    <<"<">> \o Zeros(n - 2) \o <<">">>

\* The raw messages. A raw payload is the index of its entry; MessageId and
\* Date are the headers email.message_from_string finds in it, utf8 tells
\* whether the payload decodes as UTF-8, age is the number of days since it
\* was sent, attachments the number of attachment parts.
Messages ==
    << [MessageId |-> Str(<<"<", "a", "@", "b", ">">>), Date |-> Date1, utf8 |-> TRUE, age |-> 0, attachments |-> 1],
       [MessageId |-> Str(<<"<", "a", "b",">">>), Date |-> Date2, utf8 |-> TRUE, age |-> 1, attachments |-> 0],
       [MessageId |-> None, Date |-> None, utf8 |-> FALSE, age |-> 0, attachments |-> 0],
       [MessageId |-> Str(<<"<", ">">>), Date |-> Date1, utf8 |-> TRUE, age |-> 0, attachments |-> 0],
       [MessageId |-> Str(LongId(MaxFilenameLen)), Date |-> Date3, utf8 |-> TRUE, age |-> 3, attachments |-> 0],
       [MessageId |-> Str(LongId(MaxFilenameLen - 1)), Date |-> DateMalformed, utf8 |-> TRUE, age |-> 0, attachments |-> 0],
       [MessageId |-> Str(<<>>), Date |-> Date2, utf8 |-> FALSE, age |-> 1, attachments |-> 1],
       [MessageId |-> Str(<<"<", "a", "@", "b", ">">>), Date |-> Date3, utf8 |-> TRUE, age |-> 0, attachments |-> 0],
       [MessageId |-> Str(<<"<", "a", "@", "b", ">">>), Date |-> Date1, utf8 |-> TRUE, age |-> 0, attachments |-> 0],
       [MessageId |-> None, Date |-> None, utf8 |-> TRUE, age |-> 3, attachments |-> 1] >>

RawIds ==
    1..Len(Messages)

\* email.message_from_string(payload.decode(...)): the headers of a payload
Parse(payload) ==
    Messages[payload]

\* the remote folder contents a behaviour runs against; a raw payload that
\* occurs twice is a message stored twice, byte for byte
Mailboxes ==
    { <<>>, <<1>>, <<1, 2>>, <<3, 3>>, <<4, 1>>, <<1, 4>>, <<5, 6>>,
      <<7, 10>>, <<9, 8>>, <<6, 3, 2>>, <<10, 5, 4>> }

LocalRoots ==
    { <<"a", "r", "c", "h", "i", "v", "e">>, <<"/", "d", "a", "t", "a">> }

WkhtmltopdfPaths ==
    { None, Str(<<"/", "u", "s", "r", "/", "b", "i", "n", "/", "w", "k", "h", "t", "m", "l", "t", "o", "p", "d", "f">>) }

NoDays ==
    [given |-> FALSE, n |-> 0]

DaysOptions ==
    { NoDays, [given |-> TRUE, n |-> 0], [given |-> TRUE, n |-> 2] }

INBOX ==
    <<"I", "N", "B", "O", "X">>

InboxDrafts ==
    <<"I", "N", "B", "O", "X", ".", "D", "r", "a", "f", "t", "s">>

InboxSlashDrafts ==
    <<"I", "N", "B", "O", "X", "/", "D", "r", "a", "f", "t", "s">>

RemoteFolders ==
    { INBOX, InboxDrafts }

\* the sets of folders a server lets a client select
Servers ==
    { {INBOX, InboxDrafts}, {InboxSlashDrafts}, {InboxDrafts}, {} }

(***************************************************************************)
(* State                                                                   *)
(***************************************************************************)
VARIABLES
    mailbox,        \* the messages of the remote folder, as raw payloads
    selectable,     \* the folder names the server lets a client select
    remote_folder,  \* account["remote_folder"]
    options,        \* options["days"], ["local_folder"], ["wkhtmltopdf"]
    imapState,      \* imaplib's connection state: NONAUTH, AUTH, SELECTED, LOGOUT
    selected,       \* the folder the session has selected, <<>> if none
    selectLog,      \* the SELECT commands the session has issued, in order
    pc,             \* the position of the program
    local_folder,   \* self.local_folder
    wkhtmltopdf,    \* self.wkhtmltopdf
    criterion,      \* the search criterion of copy_emails
    ids,            \* data[0].split(): the message numbers the search returned
    idx,            \* the position of the for loop of copy_emails in ids
    n_saved,
    n_exists,
    stats,          \* the value copy_emails returned
    data,           \* the fetch response saveEmail works on
    part,           \* the position of the for loop of saveEmail in data
    directory,      \* the path saveEmail computed
    failed,         \* the positions in ids whose saveEmail printed a failure
    ret,            \* the value saveEmail returned
    charset,        \* the charset that decoded the payload of the part at hand
    dirs,           \* the directories that exist
    files,          \* the files that exist
    exc,            \* the exception that left copy_emails
    summary,        \* what the last run of save_emails printed at its end
    runs,           \* finished runs of save_emails
    faults,         \* failures injected so far
    dirs0,          \* the directories that existed when copy_emails began
    prevOutcome,    \* how the previous run ended
    made,           \* the directories os.makedirs has made in this copy_emails
    partial,        \* the directories whose try block raised an exception
    keyArgs,        \* two raw payloads handed to getEmailFolder
    keys,           \* the paths getEmailFolder returned for them
    dsn,            \* the parsed connection descriptor handed to get_account
    account,        \* the account get_account returned
    procs           \* two processes, each in a saveEmail call on one local root

inputVars ==
    <<mailbox, selectable, remote_folder, options>>

sessionVars ==
    <<imapState, selected, selectLog>>

copyVars ==
    <<local_folder, wkhtmltopdf, criterion, ids, idx, n_saved, n_exists, stats>>

saveVars ==
    <<data, part, directory, failed, ret, charset>>

fsVars ==
    <<dirs, files>>

runVars ==
    <<exc, summary, runs, faults, dirs0, prevOutcome, made, partial>>

keyVars ==
    <<keyArgs, keys>>

accountVars ==
    <<dsn, account>>

raceVars ==
    <<procs>>

vars ==
    <<inputVars, sessionVars, pc, copyVars, saveVars, fsVars, runVars,
      keyVars, accountVars, raceVars>>

(***************************************************************************)
(* MailboxClient.__init__                                                  *)
(***************************************************************************)
\* re.sub(r"\.", "/", remote_folder)
AdjustRemoteFolder(f) ==
    [i \in 1..Len(f) |-> IF f[i] = "." THEN "/" ELSE f[i]]

\* line 44: the folder of the first SELECT
FirstSelect(f) ==
    INBOX

\* lines 44-51: the SELECT commands issued and the folder left selected
SelectOutcome(f, server) ==
    LET first == FirstSelect(f)
        adjust == AdjustRemoteFolder(f)
    IN  IF first \in server
        THEN [state |-> "SELECTED", folder |-> first, log |-> <<first>>]
        ELSE IF adjust \in server
             THEN [state |-> "SELECTED", folder |-> adjust, log |-> <<first, adjust>>]
             ELSE [state |-> "AUTH", folder |-> <<>>, log |-> <<first, adjust>>]

\* lines 36-39: the class of connection opened for account["ssl"]
Transport(ssl) ==
    IF ~ssl THEN "IMAP4" ELSE "IMAP4_SSL"

\* save_emails line 187: connect, login, list, select
MailboxClientInit ==
    /\ pc = "idle"
    /\ runs < MaxRuns
    /\ LET o == SelectOutcome(remote_folder, selectable)
       IN  /\ imapState' = o.state
           /\ selected' = o.folder
           /\ selectLog' = o.log
    /\ pc' = "copy_emails"
    /\ UNCHANGED <<inputVars, copyVars, saveVars, fsVars, runVars, keyVars,
                   accountVars, raceVars>>

(***************************************************************************)
(* MailboxClient.copy_emails                                               *)
(***************************************************************************)
\* lines 71-75: "if days:" takes neither None nor 0
CriterionOf(days) ==
    IF days.given /\ days.n # 0
    THEN [kind |-> "SENTSINCE", days |-> days.n]
    ELSE [kind |-> "ALL", days |-> 0]

\* the server's answer to SEARCH: the numbers of the matching messages
Search(mb, crit) ==
    SelectSeq([n \in 1..Len(mb) |-> n],
              LAMBDA n : crit.kind = "ALL" \/ Messages[mb[n]].age <= crit.days)

\* the server's answer to FETCH num (BODY.PEEK[]): a tuple of envelope and
\* payload, then the closing parenthesis
FetchResponse(payload) ==
    << [tuple |-> TRUE, payload |-> payload], [tuple |-> FALSE, payload |-> 0] >>

\* faulty: SEARCH is answered in any state of the session
SearchLegalAs_Always(state) ==
    TRUE

\* line 77: imaplib raises its error for a SEARCH outside the state SELECTED
SearchLegal(state) ==
    state = "SELECTED"

\* lines 66-78
CopyEmailsSearch ==
    /\ pc = "copy_emails"
    /\ n_saved' = 0
    /\ n_exists' = 0
    /\ local_folder' = options.local_folder
    /\ wkhtmltopdf' = options.wkhtmltopdf
    /\ criterion' = CriterionOf(options.days)
    /\ dirs0' = dirs
    /\ made' = {}
    /\ idx' = 1
    /\ failed' = {}
    /\ IF SearchLegal(imapState)
       THEN /\ ids' = Search(mailbox, criterion')
            /\ pc' = "loop"
            /\ exc' = "none"
       ELSE /\ ids' = <<>>
            /\ pc' = "raised"
            /\ exc' = "imaplib.error"
    /\ UNCHANGED <<inputVars, sessionVars, stats, data, part, directory, ret,
                   charset, fsVars, summary, runs, faults, prevOutcome, partial,
                   keyVars, accountVars, raceVars>>

\* lines 79-80
Fetch ==
    /\ pc = "loop"
    /\ idx <= Len(ids)
    /\ data' = FetchResponse(mailbox[ids[idx]])
    /\ part' = 1
    /\ pc' = "saveEmail"
    /\ UNCHANGED <<inputVars, sessionVars, copyVars, directory, failed, ret,
                   charset, fsVars, runVars, keyVars, accountVars, raceVars>>

\* faulty: the counters are taken for one another
TallyAs_Swapped(r, s, e) ==
    IF r THEN <<s, e + 1>> ELSE <<s + 1, e>>

\* lines 81-84
TallyOf(r, s, e) ==
    IF r THEN <<s + 1, e>> ELSE <<s, e + 1>>

Tally ==
    /\ pc = "tally"
    /\ n_saved' = TallyOf(ret, n_saved, n_exists)[1]
    /\ n_exists' = TallyOf(ret, n_saved, n_exists)[2]
    /\ idx' = idx + 1
    /\ pc' = "loop"
    /\ UNCHANGED <<inputVars, sessionVars, local_folder, wkhtmltopdf, criterion,
                   ids, stats, saveVars, fsVars, runVars, keyVars, accountVars,
                   raceVars>>

\* line 86
CopyEmailsReturn ==
    /\ pc = "loop"
    /\ idx > Len(ids)
    /\ stats' = <<n_saved, n_exists>>
    /\ pc' = "cleanup"
    /\ UNCHANGED <<inputVars, sessionVars, local_folder, wkhtmltopdf, criterion,
                   ids, idx, n_saved, n_exists, saveVars, fsVars, runVars,
                   keyVars, accountVars, raceVars>>

(***************************************************************************)
(* MailboxClient.saveEmail                                                 *)
(***************************************************************************)
\* faulty: no directory is found to exist
PathExistsAs_Never(path, ds) ==
    FALSE

\* os.path.exists(path)
PathExists(path, ds) ==
    Location(path) \in ds

\* faulty: a payload that is not UTF-8 is not decoded at all
DecodeAs_Utf8Only(payload) ==
    IF Messages[payload].utf8 THEN "utf-8" ELSE "none"

\* lines 149-156: the charset that decodes the payload; imaplib hands over
\* bytes, UTF-8 is tried first and ISO-8859-1, which takes every byte, next
Decode(payload) ==
    IF Messages[payload].utf8 THEN "utf-8" ELSE "ISO-8859-1"

\* the message parsed from the part at hand, lines 149-156
CurrentMsg ==
    Parse(data[part].payload)

\* the payload of the first part, data[0][1]
FirstPayload ==
    data[1].payload

\* line 143-144: a part that is no tuple is passed over
SaveEmailSkipPart ==
    /\ pc = "saveEmail"
    /\ part <= Len(data)
    /\ ~data[part].tuple
    /\ part' = part + 1
    /\ UNCHANGED <<inputVars, sessionVars, pc, copyVars, data, directory, failed,
                   ret, charset, fsVars, runVars, keyVars, accountVars,
                   raceVars>>

\* lines 158-161: the directory exists
SaveEmailExists ==
    /\ pc = "saveEmail"
    /\ part <= Len(data)
    /\ data[part].tuple
    /\ charset' = Decode(data[part].payload)
    /\ directory' = DirectoryOf(local_folder, CurrentMsg, FirstPayload)
    /\ PathExists(directory', dirs)
    /\ ret' = FALSE
    /\ pc' = "tally"
    /\ UNCHANGED <<inputVars, sessionVars, copyVars, data, part, failed, fsVars,
                   runVars, keyVars, accountVars, raceVars>>

\* lines 158-160: the directory does not exist
SaveEmailNew ==
    /\ pc = "saveEmail"
    /\ part <= Len(data)
    /\ data[part].tuple
    /\ charset' = Decode(data[part].payload)
    /\ directory' = DirectoryOf(local_folder, CurrentMsg, FirstPayload)
    /\ ~PathExists(directory', dirs)
    /\ pc' = "makedirs"
    /\ UNCHANGED <<inputVars, sessionVars, copyVars, data, part, failed, ret,
                   fsVars, runVars, keyVars, accountVars, raceVars>>

\* line 163, os.makedirs(directory): the directory and those above it
Makedirs ==
    /\ pc = "makedirs"
    /\ Location(directory) \notin dirs
    /\ dirs' = dirs \cup WithParents(Location(directory))
    /\ made' = made \cup {Location(directory)}
    /\ pc' = "Message"
    /\ UNCHANGED <<inputVars, sessionVars, copyVars, saveVars, files, exc, summary,
                   runs, faults, dirs0, prevOutcome, partial, keyVars,
                   accountVars, raceVars>>

\* line 163 raises (permissions, disk full): nothing in saveEmail or
\* copy_emails catches it
MakedirsFails ==
    /\ pc = "makedirs"
    /\ faults < MaxFaults
    /\ faults' = faults + 1
    /\ exc' = "OSError"
    /\ pc' = "raised"
    /\ UNCHANGED <<inputVars, sessionVars, copyVars, saveVars, fsVars, summary,
                   runs, dirs0, prevOutcome, made, partial, keyVars, accountVars,
                   raceVars>>

\* a file of a directory
File(path, name, content) ==
    [dir |-> Location(path), name |-> name, content |-> content]

\* the calls of the try block, lines 166-172, in order
MaterializeSteps ==
    {"Message", "createRawFile", "createMetaFile", "extractAttachments",
     "createPdfFile"}

\* line 166
NewMessage ==
    /\ pc = "Message"
    /\ pc' = "createRawFile"
    /\ UNCHANGED <<inputVars, sessionVars, copyVars, saveVars, fsVars, runVars,
                   keyVars, accountVars, raceVars>>

\* line 167: message.createRawFile(data[0][1])
CreateRawFile ==
    /\ pc = "createRawFile"
    /\ files' = files \cup {File(directory, "raw", FirstPayload)}
    /\ pc' = "createMetaFile"
    /\ UNCHANGED <<inputVars, sessionVars, copyVars, saveVars, dirs, runVars,
                   keyVars, accountVars, raceVars>>

\* line 168
CreateMetaFile ==
    /\ pc = "createMetaFile"
    /\ files' = files \cup {File(directory, "metadata", data[part].payload)}
    /\ pc' = "extractAttachments"
    /\ UNCHANGED <<inputVars, sessionVars, copyVars, saveVars, dirs, runVars,
                   keyVars, accountVars, raceVars>>

\* lines 169-171; without a renderer the try block ends here
ExtractAttachments ==
    /\ pc = "extractAttachments"
    /\ files' = files \cup
          {File(directory, "attachment", k) : k \in 1..CurrentMsg.attachments}
    /\ IF Truthy(wkhtmltopdf)
       THEN pc' = "createPdfFile" /\ part' = part
       ELSE pc' = "saveEmail" /\ part' = part + 1
    /\ UNCHANGED <<inputVars, sessionVars, copyVars, data, directory, failed, ret,
                   charset, dirs, runVars, keyVars, accountVars, raceVars>>

\* line 172
CreatePdfFile ==
    /\ pc = "createPdfFile"
    /\ files' = files \cup {File(directory, "pdf", data[part].payload)}
    /\ pc' = "saveEmail"
    /\ part' = part + 1
    /\ UNCHANGED <<inputVars, sessionVars, copyVars, data, directory, failed, ret,
                   charset, dirs, runVars, keyVars, accountVars, raceVars>>

\* faulty: the except clause lets the exception go on
OnMaterializeErrorAs_Reraise ==
    [pc |-> "raised", exc |-> "Exception"]

\* lines 174-181: the except clause prints and the loop over parts goes on
OnMaterializeError ==
    [pc |-> "saveEmail", exc |-> exc]

\* faulty: a directory whose try block raised is removed with its files
MaterializeFailsAs_RemovesEntry ==
    /\ pc \in MaterializeSteps
    /\ faults < MaxFaults
    /\ faults' = faults + 1
    /\ failed' = failed \cup {idx}
    /\ partial' = partial \cup {Location(directory)}
    /\ dirs' = dirs \ {Location(directory)}
    /\ files' = {f \in files : f.dir # Location(directory)}
    /\ part' = part + 1
    /\ pc' = OnMaterializeError.pc
    /\ exc' = OnMaterializeError.exc
    /\ UNCHANGED <<inputVars, sessionVars, copyVars, data, directory, ret, charset,
                   summary, runs, dirs0, prevOutcome, made, keyVars, accountVars,
                   raceVars>>

\* a call of the try block raises an Exception
MaterializeFails ==
    /\ pc \in MaterializeSteps
    /\ faults < MaxFaults
    /\ faults' = faults + 1
    /\ failed' = failed \cup {idx}
    /\ partial' = partial \cup {Location(directory)}
    /\ part' = part + 1
    /\ pc' = OnMaterializeError.pc
    /\ exc' = OnMaterializeError.exc
    /\ UNCHANGED <<inputVars, sessionVars, copyVars, data, directory, ret, charset,
                   fsVars, summary, runs, dirs0, prevOutcome, made, keyVars,
                   accountVars, raceVars>>

\* faulty: saveEmail returns False where the loop over the parts ends
SaveEmailReturnAs_False ==
    FALSE

\* line 183
SaveEmailReturn ==
    TRUE

SaveEmailEnd ==
    /\ pc = "saveEmail"
    /\ part > Len(data)
    /\ ret' = SaveEmailReturn
    /\ pc' = "tally"
    /\ UNCHANGED <<inputVars, sessionVars, copyVars, data, part, directory, failed,
                   charset, fsVars, runVars, keyVars, accountVars, raceVars>>

(***************************************************************************)
(* save_emails after copy_emails                                           *)
(***************************************************************************)
\* the values the locals have between runs
AtRest ==
    /\ ids' = <<>>
    /\ idx' = 1
    /\ n_saved' = 0
    /\ n_exists' = 0
    /\ data' = <<>>
    /\ part' = 1
    /\ directory' = <<>>
    /\ failed' = {}
    /\ ret' = FALSE
    /\ charset' = "none"

\* line 196, lines 100-101: close and logout
Cleanup ==
    /\ pc = "cleanup"
    /\ imapState' = "LOGOUT"
    /\ selected' = <<>>
    /\ pc' = "report"
    /\ UNCHANGED <<inputVars, selectLog, copyVars, saveVars, fsVars, runVars,
                   keyVars, accountVars, raceVars>>

\* lines 197-200, and the run is over
Report ==
    /\ pc = "report"
    /\ summary' = IF stats[1] = 0 /\ stats[2] = 0 THEN "empty" ELSE "counts"
    /\ prevOutcome' = "returned"
    /\ runs' = runs + 1
    /\ pc' = "idle"
    /\ AtRest
    /\ UNCHANGED <<inputVars, sessionVars, local_folder, wkhtmltopdf, criterion,
                   stats, fsVars, exc, faults, dirs0, made, partial, keyVars,
                   accountVars, raceVars>>

\* an exception leaves copy_emails and save_emails: the run ends with it,
\* cleanup is not called
Propagate ==
    /\ pc = "raised"
    /\ summary' = "traceback"
    /\ prevOutcome' = "raised"
    /\ runs' = runs + 1
    /\ pc' = "idle"
    /\ AtRest
    /\ UNCHANGED <<inputVars, sessionVars, local_folder, wkhtmltopdf, criterion,
                   stats, fsVars, exc, faults, dirs0, made, partial, keyVars,
                   accountVars, raceVars>>

(***************************************************************************)
(* getEmailFolder applied to two messages                                  *)
(***************************************************************************)
\* what getEmailFolder derives for a payload: lines 120-131
KeyOf(root, payload) ==
    [name |-> FolderNameOf(Parse(payload), payload),
     year |-> YearOf(Parse(payload).Date),
     path |-> getEmailFolder(root, Parse(payload), payload)]

DeriveKeys ==
    /\ keys = <<>>
    /\ keyArgs # <<>>
    /\ keys' = <<KeyOf(keyArgs[3], keyArgs[1]), KeyOf(keyArgs[3], keyArgs[2])>>
    /\ UNCHANGED <<inputVars, sessionVars, pc, copyVars, saveVars, fsVars,
                   runVars, keyArgs, accountVars, raceVars>>

(***************************************************************************)
(* get_account                                                             *)
(***************************************************************************)
UpperSeq ==
    <<"A", "B", "C", "D", "E", "F", "G", "H", "I", "J", "K", "L", "M", "N", "O", "P", "Q", "R", "S", "T", "U", "V", "W", "X", "Y", "Z">>

LowerSeq ==
    <<"a", "b", "c", "d", "e", "f", "g", "h", "i", "j", "k", "l", "m", "n", "o", "p", "q", "r", "s", "t", "u", "v", "w", "x", "y", "z">>

\* str.lower() of one character
LowerChar(c) ==
    IF c \in Upper
    THEN LowerSeq[CHOOSE i \in 1..Len(UpperSeq) : UpperSeq[i] = c]
    ELSE c

\* str.lower()
ToLower(s) ==
    [i \in 1..Len(s) |-> LowerChar(s[i])]

\* the value of a hexadecimal digit
HexVal(c) ==
    (CHOOSE i \in 1..Len(HexDigits) : HexDigits[i] = LowerChar(c)) - 1

IsHex(c) ==
    \E i \in 1..Len(HexDigits) : HexDigits[i] = LowerChar(c)

\* the characters of the codes the descriptors below escape
CharOfCode(n) ==
    IF n = 64 THEN "@"
    ELSE IF n = 58 THEN ":"
    ELSE IF n = 47 THEN "/"
    ELSE IF n = 37 THEN "%"
    ELSE " "

RECURSIVE UnquoteFrom(_, _)
\* urllib.parse.unquote from position i on: %XX is the character of code XX
UnquoteFrom(s, i) ==
    IF i > Len(s) THEN <<>>
    ELSE IF s[i] = "%" /\ i + 2 <= Len(s) /\ IsHex(s[i + 1]) /\ IsHex(s[i + 2])
         THEN <<CharOfCode(16 * HexVal(s[i + 1]) + HexVal(s[i + 2]))>>
                  \o UnquoteFrom(s, i + 3)
         ELSE <<s[i]>> \o UnquoteFrom(s, i + 1)

Unquote(s) ==
    UnquoteFrom(s, 1)

RECURSIVE LStrip(_, _)
\* str.lstrip(c)
LStrip(s, c) ==
    IF Len(s) > 0 /\ s[1] = c THEN LStrip(Tail(s), c) ELSE s

RECURSIVE RStrip(_, _)
\* str.rstrip(c)
RStrip(s, c) ==
    IF Len(s) > 0 /\ s[Len(s)] = c THEN RStrip(SubSeq(s, 1, Len(s) - 1), c) ELSE s

\* line 279
FolderOfPath(path) ==
    RStrip(LStrip(path, "/"), "/")

\* line 243
DefaultPort ==
    993

ImapScheme ==
    <<"i", "m", "a", "p">>

ImapsScheme ==
    <<"i", "m", "a", "p", "s">>

TrueWord ==
    <<"t", "r", "u", "e">>

RemoteFolderKey ==
    <<"r", "e", "m", "o", "t", "e", "_", "f", "o", "l", "d", "e", "r">>

SslKey ==
    <<"s", "s", "l">>

NameKey ==
    <<"n", "a", "m", "e">>

HostKey ==
    <<"h", "o", "s", "t">>

PortKey ==
    <<"p", "o", "r", "t">>

UsernameKey ==
    <<"u", "s", "e", "r", "n", "a", "m", "e">>

PasswordKey ==
    <<"p", "a", "s", "s", "w", "o", "r", "d">>

\* the account dictionary with value v under key k
SetKey(acc, k, v) ==
    [j \in (DOMAIN acc) \cup {k} |-> IF j = k THEN v ELSE acc[j]]

\* urllib.parse.parse_qs: the pairs with a value, grouped by key in the
\* order the keys first occur
QueryPairs(query) ==
    SelectSeq(query, LAMBDA kv : Len(kv.value) > 0)

ValuesOf(pairs, key) ==
    LET own == SelectSeq(pairs, LAMBDA kv : kv.key = key)
    IN  [i \in 1..Len(own) |-> own[i].value]

RECURSIVE KeysInOrder(_, _)
KeysInOrder(pairs, seen) ==
    IF pairs = <<>> THEN <<>>
    ELSE IF Head(pairs).key \in seen
         THEN KeysInOrder(Tail(pairs), seen)
         ELSE <<Head(pairs).key>>
                  \o KeysInOrder(Tail(pairs), seen \cup {Head(pairs).key})

\* faulty: the value of ssl is compared with "true" letter by letter
MergeParamAs_CaseSensitive(acc, key, value) ==
    IF key = RemoteFolderKey
    THEN SetKey(acc, key,
                IF acc[RemoteFolderKey].present
                THEN Str(acc[RemoteFolderKey].val \o <<",">> \o value[1])
                ELSE Str(value[1]))
    ELSE IF key = SslKey
         THEN SetKey(acc, key, value[1] = TrueWord)
         ELSE SetKey(acc, key, IF Len(value) = 1 THEN Str(value[1]) ELSE value)

\* lines 285-298: one key of the query merged into the account
MergeParam(acc, key, value) ==
    IF key = RemoteFolderKey
    THEN SetKey(acc, key,
                IF acc[RemoteFolderKey].present
                THEN Str(acc[RemoteFolderKey].val \o <<",">> \o value[1])
                ELSE Str(value[1]))
    ELSE IF key = SslKey
         THEN SetKey(acc, key, ToLower(value[1]) = TrueWord)
         ELSE SetKey(acc, key, IF Len(value) = 1 THEN Str(value[1]) ELSE value)

RECURSIVE MergeQuery(_, _, _)
MergeQuery(acc, pairs, keyOrder) ==
    IF keyOrder = <<>> THEN acc
    ELSE MergeQuery(MergeParam(acc, Head(keyOrder), ValuesOf(pairs, Head(keyOrder))),
                    pairs, Tail(keyOrder))

DefaultName ==
    <<"a", "c", "c", "o", "u", "n", "t">>

\* lines 267-276
AccountName(name, username, host) ==
    IF Truthy(name) THEN name.val
    ELSE (IF Truthy(username) THEN username.val ELSE DefaultName)
         \o (IF Truthy(host) THEN <<"@">> \o host.val ELSE <<>>)

\* lines 240-300: the account dictionary, or the ValueError of line 253
get_account(d, name) ==
    IF ToLower(d.scheme) \notin {ImapScheme, ImapsScheme}
    THEN [status |-> "ValueError"]
    ELSE LET username == IF Truthy(d.username) THEN Str(Unquote(d.username.val)) ELSE None
             password == IF Truthy(d.password) THEN Str(Unquote(d.password.val)) ELSE None
             host == IF Truthy(d.hostname) THEN d.hostname ELSE None
             base == (NameKey :> Str(AccountName(name, username, host)))
                     @@ (HostKey :> host)
                     @@ (PortKey :> IF d.port # 0 THEN d.port ELSE DefaultPort)
                     @@ (UsernameKey :> username)
                     @@ (PasswordKey :> password)
                     @@ (RemoteFolderKey :> IF d.path # <<>>
                                            THEN Str(FolderOfPath(d.path))
                                            ELSE Str(INBOX))
                     @@ (SslKey :> (ToLower(d.scheme) = ImapsScheme))
             pairs == QueryPairs(d.query)
         IN  [status |-> "ok",
              val |-> IF d.query # <<>>
                      THEN MergeQuery(base, pairs, KeysInOrder(pairs, {}))
                      ELSE base]

GetAccount ==
    /\ account.status = "unset"
    /\ dsn.scheme # <<>>
    /\ account' = get_account(dsn, None)
    /\ UNCHANGED <<inputVars, sessionVars, pc, copyVars, saveVars, fsVars,
                   runVars, keyVars, dsn, raceVars>>

(***************************************************************************)
(* Connection descriptors, as urlparse splits them                         *)
(***************************************************************************)
Schemes ==
    { ImapScheme, ImapsScheme, <<"I", "M", "A", "P", "S">>, <<"h", "t", "t", "p">> }

\* the paths of imap://user:pw@host:993, .../, ...//, .../INBOX,
\* .../INBOX.Drafts and .../INBOX.Drafts/
UrlPaths ==
    { <<>>, <<"/">>, <<"/", "/">>, <<"/">> \o INBOX, <<"/">> \o InboxDrafts,
      <<"/">> \o InboxDrafts \o <<"/">> }

InboxSent ==
    <<"I", "N", "B", "O", "X", ".", "S", "e", "n", "t">>

\* query strings, as their key=value pairs in order
Queries ==
    { <<>>,
      <<[key |-> RemoteFolderKey, value |-> InboxSent]>>,
      <<[key |-> RemoteFolderKey, value |-> InboxDrafts \o <<",">> \o InboxSent]>>,
      <<[key |-> RemoteFolderKey, value |-> InboxDrafts],
        [key |-> RemoteFolderKey, value |-> InboxSent]>>,
      <<[key |-> RemoteFolderKey, value |-> <<>>]>>,
      <<[key |-> SslKey, value |-> TrueWord]>>,
      <<[key |-> SslKey, value |-> <<"T", "r", "u", "e">>]>>,
      <<[key |-> SslKey, value |-> <<"f", "a", "l", "s", "e">>]>>,
      <<[key |-> RemoteFolderKey, value |-> InboxSent],
        [key |-> SslKey, value |-> TrueWord]>>,
      <<[key |-> NameKey, value |-> <<"A", "c", "c", "o", "u", "n", "t", "1">>]>>,
      <<[key |-> NameKey, value |-> <<"A", "c", "c", "o", "u", "n", "t", "1">>],
        [key |-> RemoteFolderKey, value |-> InboxSent],
        [key |-> NameKey, value |-> <<"A", "c", "c", "o", "u", "n", "t", "2">>]>> }

Descriptors ==
    [scheme : Schemes,
     username : {Str(<<"u", "s", "e", "r", "%", "4", "0", "x">>)},
     password : {Str(<<"p", "w">>)},
     hostname : {Str(<<"h", "o", "s", "t">>)},
     port : {0, DefaultPort},
     path : UrlPaths,
     query : Queries]

\* no descriptor: get_account is not called
NoDescriptor ==
    [scheme |-> <<>>, username |-> None, password |-> None, hostname |-> None,
     port |-> 0, path |-> <<>>, query |-> <<>>]

(***************************************************************************)
(* Specifications                                                          *)
(***************************************************************************)
\* the state before the first run of save_emails, for given inputs
Start(mb, server, folder, opts) ==
    /\ mailbox = mb
    /\ selectable = server
    /\ remote_folder = folder
    /\ options = opts
    /\ imapState = "NONAUTH"
    /\ selected = <<>>
    /\ selectLog = <<>>
    /\ pc = "idle"
    /\ local_folder = <<>>
    /\ wkhtmltopdf = None
    /\ criterion = [kind |-> "ALL", days |-> 0]
    /\ ids = <<>>
    /\ idx = 1
    /\ n_saved = 0
    /\ n_exists = 0
    /\ stats = <<0, 0>>
    /\ data = <<>>
    /\ part = 1
    /\ directory = <<>>
    /\ failed = {}
    /\ ret = FALSE
    /\ charset = "none"
    /\ dirs = {}
    /\ files = {}
    /\ exc = "none"
    /\ summary = "none"
    /\ runs = 0
    /\ faults = 0
    /\ dirs0 = {}
    /\ prevOutcome = "none"
    /\ made = {}
    /\ partial = {}

OptionSets ==
    [days : DaysOptions, local_folder : LocalRoots, wkhtmltopdf : WkhtmltopdfPaths]

\* the archival: runs of save_emails against one mailbox with one
\* configuration
Init ==
    /\ \E mb \in Mailboxes, server \in Servers, folder \in RemoteFolders,
          opts \in OptionSets :
            Start(mb, server, folder, opts)
    /\ keyArgs = <<>>
    /\ keys = <<>>
    /\ dsn = NoDescriptor
    /\ account = [status |-> "unset"]
    /\ procs = <<>>

Next ==
    \/ MailboxClientInit
    \/ CopyEmailsSearch
    \/ Fetch
    \/ SaveEmailSkipPart
    \/ SaveEmailExists
    \/ SaveEmailNew
    \/ Makedirs
    \/ MakedirsFails
    \/ NewMessage
    \/ CreateRawFile
    \/ CreateMetaFile
    \/ ExtractAttachments
    \/ CreatePdfFile
    \/ MaterializeFails
    \/ SaveEmailEnd
    \/ Tally
    \/ CopyEmailsReturn
    \/ Cleanup
    \/ Report
    \/ Propagate

Spec ==
    Init /\ [][Next]_vars

\* no run of save_emails: the program is at rest
NoRun ==
    Start(<<>>, {}, INBOX,
          [days |-> NoDays, local_folder |-> <<>>, wkhtmltopdf |-> None])

\* getEmailFolder on every two raw messages and every local root
InitKey ==
    /\ NoRun
    /\ keyArgs \in {<<a, b, root>> : a \in RawIds, b \in RawIds, root \in LocalRoots}
    /\ keys = <<>>
    /\ dsn = NoDescriptor
    /\ account = [status |-> "unset"]
    /\ procs = <<>>

NextKey ==
    DeriveKeys

SpecKey ==
    InitKey /\ [][NextKey]_vars

\* get_account on every descriptor
InitAccount ==
    /\ NoRun
    /\ keyArgs = <<>>
    /\ keys = <<>>
    /\ dsn \in Descriptors
    /\ account = [status |-> "unset"]
    /\ procs = <<>>

NextAccount ==
    GetAccount

SpecAccount ==
    InitAccount /\ [][NextAccount]_vars

(***************************************************************************)
(* Two processes in saveEmail on one local root                            *)
(***************************************************************************)
\* a process at line 81, about to call saveEmail with a fetched payload
AtSaveEmail(payload, root) ==
    [pc |-> "saveEmail", payload |-> payload, local_folder |-> root,
     directory |-> <<>>, ret |-> FALSE, exc |-> "none"]

\* every variable but procs and the file system
restVars ==
    <<inputVars, sessionVars, pc, copyVars, saveVars, runVars, keyVars,
      accountVars>>

\* lines 158-161 in process p: derive the directory, return False if it
\* exists
SaveEmailCheckBy(p) ==
    /\ procs[p].pc = "saveEmail"
    /\ LET d == DirectoryOf(procs[p].local_folder, Parse(procs[p].payload),
                            procs[p].payload)
       IN  procs' = [procs EXCEPT ![p].directory = d,
                                  ![p].ret = FALSE,
                                  ![p].pc = IF PathExists(d, dirs)
                                            THEN "returned" ELSE "makedirs"]
    /\ UNCHANGED <<restVars, fsVars>>

\* line 163 in process p: the directory does not exist
MakedirsBy(p) ==
    /\ procs[p].pc = "makedirs"
    /\ Location(procs[p].directory) \notin dirs
    /\ dirs' = dirs \cup WithParents(Location(procs[p].directory))
    /\ procs' = [procs EXCEPT ![p].pc = "Message"]
    /\ UNCHANGED <<restVars, files>>

\* line 163 in process p: os.makedirs without exist_ok raises FileExistsError
\* for a directory that exists; nothing catches it and copy_emails ends
MakedirsRaisesBy(p) ==
    /\ procs[p].pc = "makedirs"
    /\ Location(procs[p].directory) \in dirs
    /\ procs' = [procs EXCEPT ![p].pc = "raised", ![p].exc = "FileExistsError"]
    /\ UNCHANGED <<restVars, fsVars>>

\* the files a call of the try block writes, without a renderer
ArtifactsOf(step, dir, payload) ==
    CASE step = "Message" -> {}
      [] step = "createRawFile" -> {File(dir, "raw", payload)}
      [] step = "createMetaFile" -> {File(dir, "metadata", payload)}
      [] step = "extractAttachments" ->
            {File(dir, "attachment", k) : k \in 1..Parse(payload).attachments}

\* the call that follows in the try block; after the last one saveEmail
\* returns True
StepAfter(step) ==
    CASE step = "Message" -> "createRawFile"
      [] step = "createRawFile" -> "createMetaFile"
      [] step = "createMetaFile" -> "extractAttachments"
      [] step = "extractAttachments" -> "returned"

\* lines 166-169 and 183 in process p: one call of the try block
MaterializeBy(p) ==
    /\ procs[p].pc \in MaterializeSteps \ {"createPdfFile"}
    /\ files' = files \cup ArtifactsOf(procs[p].pc, procs[p].directory,
                                        procs[p].payload)
    /\ procs' = [procs EXCEPT ![p].pc = StepAfter(procs[p].pc),
                              ![p].ret = (StepAfter(procs[p].pc) = "returned")]
    /\ UNCHANGED <<restVars, dirs>>

\* two processes, each with a fetched message, on one local root
InitRace ==
    /\ NoRun
    /\ keyArgs = <<>>
    /\ keys = <<>>
    /\ dsn = NoDescriptor
    /\ account = [status |-> "unset"]
    /\ procs \in {<<AtSaveEmail(a, root), AtSaveEmail(b, root)>> :
                      a \in RawIds, b \in RawIds, root \in LocalRoots}

NextRace ==
    \E p \in {1, 2} :
        \/ SaveEmailCheckBy(p)
        \/ MakedirsBy(p)
        \/ MakedirsRaisesBy(p)
        \/ MaterializeBy(p)

SpecRace ==
    InitRace /\ [][NextRace]_vars

(***************************************************************************)
(* Properties of the archival (Spec)                                       *)
(***************************************************************************)
\* the files of a directory
FilesIn(fs, d) ==
    {f \in fs : f.dir = d}

\* saveEmail is at a part whose directory exists already
AtExistingEntry ==
    /\ pc = "saveEmail"
    /\ part <= Len(data)
    /\ data[part].tuple
    /\ Location(DirectoryOf(local_folder, CurrentMsg, FirstPayload)) \in dirs

\* saveEmail is between the creation of its directory and the end of the
\* try block
Materializing ==
    pc \in MaterializeSteps

\* C1: when copy_emails returns in a run that follows a run which returned
\* normally (same mailbox, same options, same local root), it returns 0 saved
\* and as many existing as the search gave message numbers, and the set of
\* directories is the one it found when it began.
C1_IdempotentRerun ==
    (pc = "cleanup" /\ prevOutcome = "returned")
        => (stats = <<0, Len(ids)>> /\ dirs = dirs0)

\* a second run over two or more messages has returned
C1_Witness ==
    /\ pc = "cleanup"
    /\ prevOutcome = "returned"
    /\ Len(ids) >= 2
    /\ stats = <<0, Len(ids)>>
    /\ dirs # {}

C3_MakedirsFailureSkipsOneMessage ==
    pc = "raised" => exc # "OSError"

\* C4: an exception of a call of the try block does not leave saveEmail: for
\* every message whose save printed a failure, the save went on to its return
\* and the loop of copy_emails to the next message number; copy_emails raises
\* only where no such exception was caught for the message at hand, and it
\* returns after the last message number.
C4_MaterializeFailureKeepsBatch ==
    /\ \A i \in failed :
          i < idx \/ (i = idx /\ pc \in {"saveEmail", "tally"})
    /\ pc = "raised" => (idx \notin failed /\ exc \in {"OSError", "imaplib.error"})
    /\ pc = "cleanup" => idx = Len(ids) + 1

\* copy_emails has returned after the save of its first message failed and a
\* later message was processed
C4_Witness ==
    /\ pc = "cleanup"
    /\ 1 \in failed
    /\ Len(ids) >= 2
    /\ stats[1] + stats[2] = Len(ids)

\* C5: saveEmail returns True only for a message none of whose try-block
\* calls raised, and copy_emails counts a message whose materialization
\* failed in neither counter.
C5_SavedCountsSuccesses ==
    /\ (pc = "tally" /\ ret) => idx \notin failed
    /\ pc = "cleanup" => stats[1] + stats[2] = Len(ids) - Cardinality(failed)

\* C6: the first SELECT of a session is for the configured folder, a second
\* one is issued only if the first failed and is for the folder with every
\* "." replaced by "/", and a configured folder that can be selected is the
\* folder selected.
C6_SelectsConfiguredFolderFirst ==
    pc = "copy_emails" =>
        /\ selectLog[1] = remote_folder
        /\ Len(selectLog) = 2 =>
              (remote_folder \notin selectable
               /\ selectLog[2] = AdjustRemoteFolder(remote_folder))
        /\ remote_folder \in selectable => selected = remote_folder

\* C7: the directory saveEmail checks, creates and fills is the directory
\* local_folder/year/folder name that getEmailFolder derives.
C7_DirectoryIsRootYearName ==
    pc \in {"makedirs"} \cup MaterializeSteps
        => Location(directory)
               = Location(getEmailFolder(local_folder, CurrentMsg, FirstPayload))

\* the message has a Message-Id that getEmailFolder uses as the folder name
HasUsableId(msg) ==
    Truthy(msg.MessageId) /\ Len(msg.MessageId.val) < MaxFilenameLen

\* the last component of a directory
NameOfDir(loc) ==
    loc.comps[Len(loc.comps)]

\* the raw files of messages without a usable Message-Id
HashedRawFiles ==
    {f \in files : f.name = "raw" /\ ~HasUsableId(Parse(f.content))}

\* C9: for a message with no Message-Id, an empty one or one of 255
\* characters or more, the name of the directory saveEmail works on is the
\* SHA-224 hex digest of data[0][1], the payload createRawFile writes; of two
\* raw files of such messages, the directories have the same name exactly if
\* the payloads are the same.
C9_HashOfRawPayload ==
    /\ (pc \in {"makedirs"} \cup MaterializeSteps /\ ~HasUsableId(CurrentMsg))
          => NameOfDir(Location(directory)) = Sha224(FirstPayload)
    /\ \A f \in HashedRawFiles : NameOfDir(f.dir) = Sha224(f.content)
    /\ \A f, g \in HashedRawFiles :
          (f.content = g.content) <=> (NameOfDir(f.dir) = NameOfDir(g.dir))

\* the raw files of two different messages without a usable Message-Id, one
\* of them with an overlong one, lie in directories of different names
C9_Witness ==
    \E f, g \in HashedRawFiles :
        /\ f.content # g.content
        /\ Parse(f.content).MessageId.present
        /\ ~Parse(g.content).MessageId.present
        /\ NameOfDir(f.dir) = Sha224(f.content)
        /\ NameOfDir(f.dir) # NameOfDir(g.dir)

\* saveEmail is at a part whose directory an earlier saveEmail call has made
\* and failed to fill
AtPartialEntry ==
    /\ pc = "saveEmail"
    /\ part <= Len(data)
    /\ data[part].tuple
    /\ idx \notin failed
    /\ Location(DirectoryOf(local_folder, CurrentMsg, FirstPayload)) \in partial

\* C12: once a call of the try block has raised for a directory, every later
\* saveEmail for a message of that directory returns False without touching
\* directories or files, copy_emails counts the message in n_exists, and the
\* files of the directory never change again.
C12_DedupByExistence ==
    [][ /\ AtPartialEntry
            => (pc' = "tally" /\ ret' = FALSE /\ dirs' = dirs /\ files' = files)
        /\ (pc = "tally" /\ idx \notin failed /\ Location(directory) \in partial)
            => (/\ ~ret
                /\ pc' = "loop" => (n_exists' = n_exists + 1 /\ n_saved' = n_saved))
        /\ \A d \in partial : FilesIn(files', d) = FilesIn(files, d) ]_vars

\* in a later run saveEmail has returned False for a message whose directory
\* an earlier run left without its raw file
C12_Witness ==
    /\ runs >= 1
    /\ failed = {}
    /\ pc = "tally"
    /\ ~ret
    /\ Location(directory) \in partial
    /\ File(directory, "raw", FirstPayload) \notin files

\* the payload saveEmail works on is not valid UTF-8
NotUtf8 ==
    ~Messages[FirstPayload].utf8

\* C13: a payload that is not valid UTF-8 is parsed after decoding as
\* ISO-8859-1; when saveEmail has made the directory for such a message and
\* no call of its try block raised, the directory exists and holds the raw
\* file with the payload as fetched.
C13_DecodeFallbackKeepsRawFile ==
    /\ (pc \in {"makedirs", "tally"} \cup MaterializeSteps /\ NotUtf8)
          => charset = "ISO-8859-1"
    /\ (pc = "tally" /\ ret /\ idx \notin failed /\ NotUtf8)
          => (/\ Location(directory) \in dirs
              /\ File(directory, "raw", FirstPayload) \in files)

\* saveEmail has returned True for a payload that is not valid UTF-8, and
\* its raw file is there
C13_Witness ==
    /\ pc = "tally"
    /\ ret
    /\ idx \notin failed
    /\ NotUtf8
    /\ charset = "ISO-8859-1"
    /\ File(directory, "raw", FirstPayload) \in files

\* the positions of the messages sent at most n days ago
SentWithin(n) ==
    SelectSeq([k \in 1..Len(mailbox) |-> k],
              LAMBDA k : Messages[mailbox[k]].age <= n)

\* C14: with a day count d given, 0 included, copy_emails searches for the
\* messages sent on or after today minus d days and works on those; it
\* searches with ALL only when options["days"] is None.
C14_CriterionFollowsDays ==
    pc = "loop" =>
        IF options.days.given
        THEN /\ criterion = [kind |-> "SENTSINCE", days |-> options.days.n]
             /\ ids = SentWithin(options.days.n)
        ELSE /\ criterion.kind = "ALL"
             /\ Len(ids) = Len(mailbox)

\* C15: in a session where both SELECT commands failed, copy_emails ends with
\* an exception at its search: no message is fetched, no directory is made,
\* copy_emails never returns counts and save_emails prints no summary of an
\* empty folder.
C15_UnselectedFailsFast ==
    imapState = "AUTH" =>
        /\ pc \in {"copy_emails", "raised", "idle"}
        /\ pc = "raised" =>
              (exc = "imaplib.error" /\ ids = <<>> /\ data = <<>> /\ dirs = dirs0)
        /\ pc = "idle" => (prevOutcome = "raised" /\ summary = "traceback")
        /\ made = {}

\* copy_emails has raised in a session whose two SELECT commands failed, on
\* a folder that holds messages
C15_Witness ==
    /\ imapState = "AUTH"
    /\ Len(selectLog) = 2
    /\ pc = "raised"
    /\ exc = "imaplib.error"
    /\ Len(mailbox) >= 1
    /\ dirs = {}

\* the number of components of a directory two levels below the local root
EntryDepth ==
    Len(Location(local_folder).comps) + 2

\* C16: the folder name of the message saveEmail works on is not empty; the
\* directory it checks, makes and fills lies two levels below the local
\* root, one below the year directory; so does every file written.
C16_EntryBelowYearDirectory ==
    /\ pc \in {"makedirs", "tally"} \cup MaterializeSteps
          => (/\ FolderNameOf(Parse(FirstPayload), FirstPayload) # <<>>
              /\ Len(Location(directory).comps) = EntryDepth)
    /\ \A f \in files : Len(f.dir.comps) = EntryDepth

C18_SessionLoggedOut ==
    (pc = "idle" /\ runs >= 1) => imapState = "LOGOUT"

(***************************************************************************)
(* Properties of getEmailFolder on two messages (SpecKey)                  *)
(***************************************************************************)
\* the message carries a Message-Id header shorter than 255 characters
HasShortId(msg) ==
    msg.MessageId.present /\ Len(msg.MessageId.val) < MaxFilenameLen

\* the two messages have the same Message-Id once the characters outside
\* [A-Za-z0-9_\-.() ] are removed
SameSanitizedId ==
    SelectSeq(Parse(keyArgs[1]).MessageId.val, LAMBDA c : c \in FolderNameChar)
        = SelectSeq(Parse(keyArgs[2]).MessageId.val, LAMBDA c : c \in FolderNameChar)

\* C8 as stated: two messages that carry a Message-Id header shorter than 255
\* characters and have the same sanitized Message-Id get the same folder name.
C8_SameSanitizedIdSameName ==
    (/\ keys # <<>>
     /\ HasShortId(Parse(keyArgs[1]))
     /\ HasShortId(Parse(keyArgs[2]))
     /\ SameSanitizedId)
        => keys[1].name = keys[2].name

\* C8 amended: two messages that carry a non-empty Message-Id header shorter
\* than 255 characters and have the same sanitized Message-Id get the same
\* folder name, whatever their payloads.
C8_SameSanitizedNonEmptyIdSameName ==
    (/\ keys # <<>>
     /\ HasUsableId(Parse(keyArgs[1]))
     /\ HasUsableId(Parse(keyArgs[2]))
     /\ SameSanitizedId)
        => keys[1].name = keys[2].name

\* two messages of different payloads and different Message-Ids that are the
\* same once sanitized have got the same folder name
C8_Witness ==
    /\ keys # <<>>
    /\ keyArgs[1] # keyArgs[2]
    /\ HasUsableId(Parse(keyArgs[1]))
    /\ HasUsableId(Parse(keyArgs[2]))
    /\ Parse(keyArgs[1]).MessageId # Parse(keyArgs[2]).MessageId
    /\ SameSanitizedId
    /\ keys[1].name = keys[2].name

(***************************************************************************)
(* Properties of get_account (SpecAccount)                                 *)
(***************************************************************************)
\* the path of the descriptor is absent or made of slashes only
NoFolderInPath ==
    \A i \in 1..Len(dsn.path) : dsn.path[i] = "/"

\* the values the query gives for remote_folder
RemoteFolderParams ==
    {i \in 1..Len(dsn.query) : dsn.query[i].key = RemoteFolderKey}

\* a comma-joined list with an empty name in it
HasEmptyName(s) ==
    \/ s = <<>>
    \/ s[1] = ","
    \/ s[Len(s)] = ","
    \/ \E i \in 1..(Len(s) - 1) : s[i] = "," /\ s[i + 1] = ","

\* C10: a descriptor whose path is absent or slashes only resolves to the
\* remote folder "INBOX" if the query has no remote_folder, and to a folder
\* list without an empty name if the query has remote_folder=F.
C10_DefaultRemoteFolder ==
    (account.status = "ok" /\ NoFolderInPath) =>
        /\ RemoteFolderParams = {} => account.val[RemoteFolderKey] = Str(INBOX)
        /\ (\E i \in RemoteFolderParams : dsn.query[i].value # <<>>)
              => ~HasEmptyName(account.val[RemoteFolderKey].val)

\* the values parse_qs keeps for ssl, in order
SslParams ==
    ValuesOf(QueryPairs(dsn.query), SslKey)

\* C11 as stated: a descriptor of scheme imaps, in any letter case and with
\* any query, resolves to ssl = True, and the connection opened for it is an
\* IMAP4_SSL one.
C11_ImapsForcesSsl ==
    (account.status = "ok" /\ ToLower(dsn.scheme) = ImapsScheme)
        => (account.val[SslKey] = TRUE
            /\ Transport(account.val[SslKey]) = "IMAP4_SSL")

\* C11 amended: a descriptor of scheme imaps, in any letter case, whose query
\* has no ssl value, or whose first ssl value is "true" in any letter case,
\* resolves to ssl = True, and the connection opened for it is an IMAP4_SSL
\* one.
C11_ImapsSslUnlessQuerySaysOtherwise ==
    (/\ account.status = "ok"
     /\ ToLower(dsn.scheme) = ImapsScheme
     /\ (SslParams = <<>> \/ ToLower(SslParams[1]) = TrueWord))
        => (account.val[SslKey] = TRUE
            /\ Transport(account.val[SslKey]) = "IMAP4_SSL")

\* IMAPS://...?ssl=True has resolved to ssl = True
C11_Witness ==
    /\ account.status = "ok"
    /\ dsn.scheme # ImapsScheme
    /\ ToLower(dsn.scheme) = ImapsScheme
    /\ SslParams # <<>>
    /\ SslParams[1] # TrueWord
    /\ account.val[SslKey] = TRUE

(***************************************************************************)
(* Properties of two processes in saveEmail (SpecRace)                     *)
(***************************************************************************)
\* the directory process p derives for its message
TargetOf(p) ==
    Location(DirectoryOf(procs[p].local_folder, Parse(procs[p].payload),
                         procs[p].payload))

\* process p is between os.makedirs and the end of the try block
Writing(p) ==
    procs[p].pc \in MaterializeSteps

\* C19: of two processes whose messages have the same directory, none ends
\* with an exception, the two are never both between os.makedirs and the
\* end of the try block, and when both have returned, one has returned True
\* and the other False.
C19_ConcurrentRunsAreSafe ==
    TargetOf(1) = TargetOf(2) =>
        /\ \A p \in {1, 2} : procs[p].pc # "raised"
        /\ ~(Writing(1) /\ Writing(2))
        /\ (procs[1].pc = "returned" /\ procs[2].pc = "returned")
              => procs[1].ret # procs[2].ret

====
